---- MODULE Spec2Model ----
(***************************************************************************)
(* Model of package sitemap (src/sitemap.go): the six entry points Parse,  *)
(* ParseFromFile, ParseFromSite, ParseIndex, ParseIndexFromFile and        *)
(* ParseIndexFromSite, one call per behaviour.                             *)
(*                                                                         *)
(* A document is a sequence of tokens; a reader is a one-pass stream over  *)
(* a document that may fail at some position.  Errors are records that     *)
(* keep the dynamic type of the Go error value, because isTimeoutError     *)
(* decides by type assertion.                                              *)
(***************************************************************************)
EXTENDS Integers, Sequences, FiniteSets, TLC

VARIABLES
    entry,      \* the entry point called
    doc,        \* the document behind the file / URL / reader
    pool,       \* proxyServers argument
    urlOK,      \* whether http.NewRequest accepts sitemapURL
    pc,         \* position in the call
    phase,      \* "none" | "proxy" | "direct": the attempt in progress
    rd,         \* the io.Reader handed to Parse / ParseIndex
    err,        \* the error value in hand (the callee's return value)
    panicked,   \* the call ended in a run-time panic
    requests,   \* HTTP requests issued with client.Do, in order
    outcomes,   \* how each attempt ended, in order
    consumed,   \* document positions handed to the consumer, in order
    failOn,     \* the consumer returns an error on this invocation (0: never)
    consErr,    \* the error value the consumer then returns
    preRead,    \* tokens read from rd before the walk began
    walkRead,   \* tokens read from rd by the walk
    opened,     \* resources acquired (file handle, response bodies)
    closed,     \* resources released
    walked      \* resources whose walk has returned

vars == <<entry, doc, pool, urlOK, pc, phase, rd, err, panicked, requests,
          outcomes, consumed, failOn, consErr, preRead, walkRead, opened,
          closed, walked>>

----------------------------------------------------------------------------
(* Bounds *)

MaxLen == 2
MaxPool == 2

----------------------------------------------------------------------------
(* Documents *)

\* "url": a <url> element with a <loc>;   "urlNoLoc": a <url> without <loc>
\* "sitemap": a <sitemap> element with a <loc>
\* "other": any other token (root start element, character data, end element)
\* "bad": malformed markup
Tokens == {"url", "urlNoLoc", "sitemap", "other", "bad"}

RECURSIVE SeqsUpTo(_, _)
SeqsUpTo(S, n) ==
    IF n = 0 THEN {<<>>}
    ELSE LET shorter == SeqsUpTo(S, n - 1)
         IN  shorter \cup {Append(s, x) : s \in {t \in shorter : Len(t) = n - 1}, x \in S}

Docs == SeqsUpTo(Tokens, MaxLen)

\* A well-formed page sitemap: no malformed markup, every <url> has a <loc>.
WellFormedPage(d) == \A i \in 1..Len(d) : d[i] \in {"url", "other"}

UrlPositions(d) == {i \in 1..Len(d) : d[i] = "url"}

RECURSIVE Ascending(_, _)
\* the positions of S in increasing order, starting above lo
Ascending(S, lo) ==
    IF {i \in S : i > lo} = {} THEN <<>>
    ELSE LET m == CHOOSE i \in S : i > lo /\ \A j \in S : j > lo => i <= j
         IN  <<m>> \o Ascending(S, m)

----------------------------------------------------------------------------
(* Error values *)

\* type: dynamic type; net: implements net.Error; timeout: what Timeout()
\* reports; innerNetTimeout: for *url.Error, the wrapped error is a net.Error
\* whose Timeout() is true; msg: the text of Error(), as its parts.
Nil == [type |-> "nil", net |-> FALSE, timeout |-> FALSE,
        innerNetTimeout |-> FALSE, msg |-> <<>>]

\* client.Do fails with a *url.Error; (*url.Error).Timeout() forwards to the
\* wrapped error.
urlError(isTimeout) ==
    [type |-> "*url.Error", net |-> TRUE, timeout |-> isTimeout,
     innerNetTimeout |-> isTimeout,
     msg |-> IF isTimeout THEN <<"Get", "timeout">> ELSE <<"Get", "refused">>]

\* url.Parse and http.NewRequest fail with a *url.Error that is no timeout.
parseError == [type |-> "*url.Error", net |-> TRUE, timeout |-> FALSE,
               innerNetTimeout |-> FALSE, msg |-> <<"parse">>]

\* os.OpenFile fails with a *fs.PathError (no net.Error: it has no Temporary()).
pathError == [type |-> "*fs.PathError", net |-> FALSE, timeout |-> FALSE,
              innerNetTimeout |-> FALSE, msg |-> <<"open">>]

\* a read of the stream fails: a plain I/O error, or a net.Error that reports
\* a timeout (the client's Timeout expiring while the body is read).
readIOError == [type |-> "io", net |-> FALSE, timeout |-> FALSE,
                innerNetTimeout |-> FALSE, msg |-> <<"read">>]
readTimeout == [type |-> "net.Error", net |-> TRUE, timeout |-> TRUE,
                innerNetTimeout |-> FALSE, msg |-> <<"read", "timeout">>]

\* what a consumer may return: any error value of the caller's choosing.
consumerPlain == [type |-> "consumer", net |-> FALSE, timeout |-> FALSE,
                  innerNetTimeout |-> FALSE, msg |-> <<"stop">>]
consumerTimeout == [type |-> "consumerNet", net |-> TRUE, timeout |-> TRUE,
                    innerNetTimeout |-> FALSE, msg |-> <<"stop", "timeout">>]

syntaxError == [type |-> "*xml.SyntaxError", net |-> FALSE, timeout |-> FALSE,
                innerNetTimeout |-> FALSE, msg |-> <<"syntax">>]
validationError == [type |-> "validation", net |-> FALSE, timeout |-> FALSE,
                    innerNetTimeout |-> FALSE, msg |-> <<"loc">>]

\* fmt.Errorf("...: %v", e): without %w the result is a fresh
\* *errors.errorString that keeps only the text of e.
Errorf(prefix, e) ==
    [type |-> "*errors.errorString", net |-> FALSE, timeout |-> FALSE,
     innerNetTimeout |-> FALSE, msg |-> <<prefix>> \o e.msg]

isTimeoutError(e) ==
    \/ e.net /\ e.timeout
    \/ e.type = "*url.Error" /\ e.innerNetTimeout

----------------------------------------------------------------------------
(* Readers *)

NoFail == 0 - 1

\* A one-pass reader over data: pos tokens are gone; a read attempted at
\* position failAt fails with failErr (again on every later read when sticky,
\* once otherwise).
Reader(res, data, failAt, failErr, sticky) ==
    [res |-> res, data |-> data, pos |-> 0, failAt |-> failAt,
     failErr |-> failErr, sticky |-> sticky, fired |-> FALSE]

NoReader == Reader("none", <<>>, NoFail, Nil, TRUE)

FailsNow(r) == r.failAt = r.pos /\ (r.sticky \/ ~r.fired)

\* ioutil.ReadAll: read until EOF or the first error.
ReadAll(r) ==
    IF r.failAt >= r.pos /\ (r.sticky \/ ~r.fired)
    THEN [r EXCEPT !.pos = r.failAt, !.fired = TRUE]
    ELSE [r EXCEPT !.pos = Len(r.data)]

AnyReaders(res, data) ==
    {Reader(res, data, NoFail, Nil, TRUE)} \cup
    {Reader(res, data, p, e, s) :
        p \in 0..Len(data), e \in {readIOError, readTimeout}, s \in BOOLEAN}

\* An HTTP response body: a failed read stays failed.
BodyReaders(res, data) ==
    {Reader(res, data, NoFail, Nil, TRUE)} \cup
    {Reader(res, data, p, e, TRUE) :
        p \in 0..Len(data), e \in {readIOError, readTimeout}}

\* An open file: reads fail with plain I/O errors only.
FileReaders(res, data) ==
    {Reader(res, data, NoFail, Nil, TRUE)} \cup
    {Reader(res, data, p, readIOError, TRUE) : p \in 0..Len(data)}

----------------------------------------------------------------------------
(* The call *)

Entries == {"Parse", "ParseFromFile", "ParseFromSite",
            "ParseIndex", "ParseIndexFromFile", "ParseIndexFromSite"}

SiteEntries == {"ParseFromSite", "ParseIndexFromSite"}
FileEntries == {"ParseFromFile", "ParseIndexFromFile"}
PageEntries == {"Parse", "ParseFromFile", "ParseFromSite"}

\* a proxy string either parses as a URL or does not
Pools == SeqsUpTo({"proxy", "badurl"}, MaxPool)

FirstPc(e) ==
    IF e = "ParseFromSite" THEN "parseWithProxy" ELSE e

Init ==
    /\ entry \in Entries
    /\ doc \in Docs
    /\ pool \in (IF entry \in SiteEntries THEN Pools ELSE {<<>>})
    /\ urlOK \in (IF entry \in SiteEntries THEN BOOLEAN ELSE {TRUE})
    /\ pc = FirstPc(entry)
    /\ phase = "none"
    /\ rd \in (IF entry \in {"Parse", "ParseIndex"}
               THEN AnyReaders("arg", doc) ELSE {NoReader})
    /\ err = Nil
    /\ panicked = FALSE
    /\ requests = <<>>
    /\ outcomes = <<>>
    /\ consumed = <<>>
    /\ failOn \in 0..MaxLen
    /\ consErr \in (IF failOn = 0 THEN {Nil} ELSE {consumerPlain, consumerTimeout})
    /\ preRead = 0
    /\ walkRead = 0
    /\ opened = {}
    /\ closed = {}
    /\ walked = {}

\* where control goes when Parse / ParseIndex returns
AfterParse ==
    IF entry \in SiteEntries THEN "bodyClose"
    ELSE IF entry \in FileEntries THEN "fileClose"
    ELSE "done"

\* the record of how one retrieval attempt ended
Outcome(how, e) == [how |-> how, err |-> e, calls |-> Len(consumed)]

Body == IF phase = "direct" THEN "directBody" ELSE "proxyBody"

----------------------------------------------------------------------------
(* The walk *)

\* what the page-entry handler does with a start element
entryParser(tok) ==
    CASE tok = "url" -> "consume"
      [] tok = "urlNoLoc" -> "invalid"
      [] OTHER -> "skip"

\* what the index-entry handler does with a start element
indexEntryParser(tok) ==
    CASE tok = "sitemap" -> "consume"
      [] OTHER -> "skip"

\* the consumer, called for the n-th time
consumer(n) == IF n = failOn THEN consErr ELSE Nil

WalkReturns(e) ==
    /\ err' = e
    /\ walked' = walked \cup {rd.res}
    /\ pc' = AfterParse

\* one iteration of the token loop
parseLoop ==
    /\ pc = "parseLoop"
    /\ UNCHANGED <<entry, doc, pool, urlOK, phase, panicked, requests, outcomes,
                   failOn, consErr, preRead, opened, closed>>
    /\ IF FailsNow(rd)
       THEN /\ rd' = [rd EXCEPT !.fired = TRUE]
            /\ WalkReturns(rd.failErr)
            /\ UNCHANGED <<consumed, walkRead>>
       ELSE IF rd.pos = Len(rd.data)
       THEN /\ WalkReturns(Nil)
            /\ UNCHANGED <<rd, consumed, walkRead>>
       ELSE LET at == rd.pos + 1
                tok == rd.data[at]
                todo == IF entry \in PageEntries
                        THEN entryParser(tok) ELSE indexEntryParser(tok)
                n == Len(consumed) + 1
            IN  /\ rd' = [rd EXCEPT !.pos = at]
                /\ walkRead' = walkRead + 1
                /\ IF tok = "bad"
                   THEN WalkReturns(syntaxError) /\ UNCHANGED consumed
                   ELSE IF todo = "invalid"
                   THEN WalkReturns(validationError) /\ UNCHANGED consumed
                   ELSE IF todo = "consume"
                   THEN /\ consumed' = Append(consumed, at)
                        /\ IF consumer(n) # Nil
                           THEN WalkReturns(consumer(n))
                           ELSE UNCHANGED <<err, walked, pc>>
                   ELSE UNCHANGED <<consumed, err, walked, pc>>

\* Parse up to its call of parseLoop
Parse ==
    /\ pc = "Parse"
    /\ rd' = ReadAll(rd)
    /\ preRead' = rd'.pos - rd.pos
    /\ pc' = "parseLoop"
    /\ UNCHANGED <<entry, doc, pool, urlOK, phase, err, panicked, requests,
                   outcomes, consumed, failOn, consErr, walkRead, opened,
                   closed, walked>>

ParseIndex ==
    /\ pc = "ParseIndex"
    /\ pc' = "parseLoop"
    /\ UNCHANGED <<entry, doc, pool, urlOK, phase, rd, err, panicked, requests,
                   outcomes, consumed, failOn, consErr, preRead, walkRead,
                   opened, closed, walked>>

----------------------------------------------------------------------------
(* Files *)

OpenFile(next) ==
    /\ UNCHANGED <<entry, doc, pool, urlOK, phase, panicked, requests, outcomes,
                   consumed, failOn, consErr, preRead, walkRead, closed, walked>>
    /\ \/ /\ err' = pathError
          /\ pc' = "done"
          /\ UNCHANGED <<rd, opened>>
       \/ /\ opened' = opened \cup {"file"}
          /\ rd' \in FileReaders("file", doc)
          /\ pc' = next
          /\ UNCHANGED err

ParseFromFile ==
    /\ pc = "ParseFromFile"
    /\ OpenFile("Parse")

ParseIndexFromFile ==
    /\ pc = "ParseIndexFromFile"
    /\ OpenFile("ParseIndex")

\* defer sitemapFile.Close()
fileClose ==
    /\ pc = "fileClose"
    /\ closed' = closed \cup {"file"}
    /\ pc' = "done"
    /\ UNCHANGED <<entry, doc, pool, urlOK, phase, rd, err, panicked, requests,
                   outcomes, consumed, failOn, consErr, preRead, walkRead,
                   opened, walked>>

----------------------------------------------------------------------------
(* Retrieval *)

\* rand.Intn(len(proxyServers)) panics when the pool is empty; otherwise any
\* index of the pool may be drawn.
Intn(n) == 1..n

\* variant: fall back on every error of the proxied attempt
shouldFallBackOnAnyError(e) == e # Nil

\* the test ParseFromSite makes on the proxied attempt's error
shouldFallBack(e) == e # Nil /\ isTimeoutError(e)

\* variant: the direct attempt's error is examined for a timeout as well
AfterMakeRequestRetrying == "ParseFromSite"

\* where control goes when makeRequest returns
AfterMakeRequest == IF phase = "proxy" THEN "ParseFromSite" ELSE "done"

\* client.Do(req): the reply, or a *url.Error
DoOutcomes == {"response", "doTimeout", "doError"}

parseWithProxy ==
    /\ pc = "parseWithProxy"
    /\ UNCHANGED <<entry, doc, pool, urlOK, rd, requests, consumed, failOn,
                   consErr, preRead, walkRead, opened, closed, walked>>
    /\ IF Len(pool) = 0
       THEN /\ panicked' = TRUE
            /\ pc' = "done"
            /\ UNCHANGED <<phase, err, outcomes>>
       ELSE \E i \in Intn(Len(pool)) :
              /\ phase' = "proxy"
              /\ UNCHANGED panicked
              /\ IF pool[i] = "badurl"
                 THEN /\ err' = Errorf("failed to parse proxy URL", parseError)
                      /\ outcomes' = Append(outcomes, Outcome("badProxyURL", err'))
                      /\ pc' = "ParseFromSite"
                 ELSE /\ pc' = "makeRequest"
                      /\ UNCHANGED <<err, outcomes>>

parseWithoutProxy ==
    /\ pc = "parseWithoutProxy"
    /\ phase' = "direct"
    /\ pc' = "makeRequest"
    /\ UNCHANGED <<entry, doc, pool, urlOK, rd, err, panicked, requests,
                   outcomes, consumed, failOn, consErr, preRead, walkRead,
                   opened, closed, walked>>

\* makeRequest up to its call of Parse
makeRequest ==
    /\ pc = "makeRequest"
    /\ UNCHANGED <<entry, doc, pool, urlOK, phase, panicked, consumed, failOn,
                   consErr, preRead, walkRead, closed, walked>>
    /\ IF ~urlOK
       THEN /\ err' = Errorf("failed to create request", parseError)
            /\ outcomes' = Append(outcomes, Outcome("badRequest", err'))
            /\ pc' = AfterMakeRequest
            /\ UNCHANGED <<rd, requests, opened>>
       ELSE /\ requests' = Append(requests, phase)
            /\ \E o \in DoOutcomes :
                 IF o = "response"
                 THEN /\ opened' = opened \cup {Body}
                      /\ rd' \in BodyReaders(Body, doc)
                      /\ pc' = "Parse"
                      /\ UNCHANGED <<err, outcomes>>
                 ELSE /\ err' = Errorf("failed to make request",
                                       urlError(o = "doTimeout"))
                      /\ outcomes' = Append(outcomes, Outcome(o, err'))
                      /\ pc' = AfterMakeRequest
                      /\ UNCHANGED <<rd, opened>>

\* variant: the body is closed on the success path only
bodyCloseOnSuccess ==
    /\ pc = "bodyClose"
    /\ entry = "ParseFromSite"
    /\ closed' = IF err = Nil THEN closed \cup {Body} ELSE closed
    /\ outcomes' = Append(outcomes, Outcome("walk", err))
    /\ pc' = AfterMakeRequest
    /\ UNCHANGED <<entry, doc, pool, urlOK, phase, rd, err, panicked, requests,
                   consumed, failOn, consErr, preRead, walkRead, opened, walked>>

\* defer res.Body.Close() of makeRequest, and its return
bodyClose ==
    /\ pc = "bodyClose"
    /\ entry = "ParseFromSite"
    /\ closed' = closed \cup {Body}
    /\ outcomes' = Append(outcomes, Outcome("walk", err))
    /\ pc' = AfterMakeRequest
    /\ UNCHANGED <<entry, doc, pool, urlOK, phase, rd, err, panicked, requests,
                   consumed, failOn, consErr, preRead, walkRead, opened, walked>>

\* ParseFromSite once parseWithProxy has returned
ParseFromSite ==
    /\ pc = "ParseFromSite"
    /\ pc' = IF shouldFallBack(err) THEN "parseWithoutProxy" ELSE "done"
    /\ UNCHANGED <<entry, doc, pool, urlOK, phase, rd, err, panicked, requests,
                   outcomes, consumed, failOn, consErr, preRead, walkRead,
                   opened, closed, walked>>

\* ParseIndexFromSite up to its call of ParseIndex
ParseIndexFromSite ==
    /\ pc = "ParseIndexFromSite"
    /\ UNCHANGED <<entry, doc, pool, urlOK, consumed, failOn, consErr, preRead,
                   walkRead, closed, walked>>
    /\ IF Len(pool) = 0
       THEN /\ panicked' = TRUE
            /\ pc' = "done"
            /\ UNCHANGED <<phase, rd, err, requests, outcomes, opened>>
       ELSE \E i \in Intn(Len(pool)) :
              /\ phase' = "proxy"
              /\ UNCHANGED panicked
              /\ IF pool[i] = "badurl"
                 THEN /\ err' = Errorf("failed to parse proxy URL", parseError)
                      /\ outcomes' = Append(outcomes, Outcome("badProxyURL", err'))
                      /\ pc' = "done"
                      /\ UNCHANGED <<rd, requests, opened>>
                 ELSE IF ~urlOK
                 THEN /\ err' = Errorf("failed to create request", parseError)
                      /\ outcomes' = Append(outcomes, Outcome("badRequest", err'))
                      /\ pc' = "done"
                      /\ UNCHANGED <<rd, requests, opened>>
                 ELSE /\ requests' = Append(requests, "proxy")
                      /\ \E o \in DoOutcomes :
                           IF o = "response"
                           THEN /\ opened' = opened \cup {"proxyBody"}
                                /\ rd' \in BodyReaders("proxyBody", doc)
                                /\ pc' = "ParseIndex"
                                /\ UNCHANGED <<err, outcomes>>
                           ELSE /\ err' = Errorf("failed to make request",
                                                 urlError(o = "doTimeout"))
                                /\ outcomes' = Append(outcomes, Outcome(o, err'))
                                /\ pc' = "done"
                                /\ UNCHANGED <<rd, opened>>

\* defer res.Body.Close() of ParseIndexFromSite, and its return
indexBodyClose ==
    /\ pc = "bodyClose"
    /\ entry = "ParseIndexFromSite"
    /\ closed' = closed \cup {"proxyBody"}
    /\ outcomes' = Append(outcomes, Outcome("walk", err))
    /\ pc' = "done"
    /\ UNCHANGED <<entry, doc, pool, urlOK, phase, rd, err, panicked, requests,
                   consumed, failOn, consErr, preRead, walkRead, opened, walked>>

----------------------------------------------------------------------------

Next ==
    \/ Parse
    \/ ParseIndex
    \/ parseLoop
    \/ ParseFromFile
    \/ ParseIndexFromFile
    \/ fileClose
    \/ parseWithProxy
    \/ parseWithoutProxy
    \/ makeRequest
    \/ bodyClose
    \/ ParseFromSite
    \/ ParseIndexFromSite
    \/ indexBodyClose

Spec == Init /\ [][Next]_vars

Done == pc = "done"

TypeOK ==
    /\ entry \in Entries
    /\ pc \in {"Parse", "ParseIndex", "parseLoop", "ParseFromFile",
               "ParseIndexFromFile", "fileClose", "parseWithProxy",
               "parseWithoutProxy", "makeRequest", "bodyClose",
               "ParseFromSite", "ParseIndexFromSite", "done"}
    /\ phase \in {"none", "proxy", "direct"}
    /\ rd.pos \in 0..Len(rd.data)
    /\ preRead \in 0..Len(doc)
    /\ walkRead \in 0..Len(doc)
    /\ closed \subseteq opened

----------------------------------------------------------------------------
(* Properties *)

NonTimeoutFailures == {"badProxyURL", "badRequest", "doError"}

\* the reader handed to the call never fails
ReaderSound == rd.failAt = NoFail

\* C1: Parse on a well-formed page sitemap with N <url> elements, read from a
\* one-pass stream that does not fail, with a consumer that never fails:
\* the consumer is invoked exactly N times, once per <url> in document
\* order, and Parse returns no error.
C1_ParseDeliversEveryUrl ==
    (/\ entry = "Parse"
     /\ WellFormedPage(doc)
     /\ ReaderSound
     /\ failOn = 0
     /\ pc = "done")
    => /\ consumed = Ascending(UrlPositions(doc), 0)
       /\ err = Nil

\* C2: when the consumer returns an error on its k-th invocation and the
\* document has at least k records, Parse returns with exactly k consumer
\* invocations made and with the consumer's error as its result.
C2_ConsumerErrorStopsParse ==
    (/\ entry = "Parse"
     /\ WellFormedPage(doc)
     /\ ReaderSound
     /\ failOn >= 1
     /\ Cardinality(UrlPositions(doc)) >= failOn
     /\ pc = "done")
    => /\ Len(consumed) = failOn
       /\ err = consErr

\* C3: in ParseFromSite with a non-empty pool, when the proxied GET fails
\* with a timeout, exactly one direct GET follows and the call returns what
\* the direct attempt returned.
C3_TimeoutFallsBackToDirect ==
    (/\ entry = "ParseFromSite"
     /\ Len(pool) > 0
     /\ pc = "done"
     /\ Len(outcomes) >= 1
     /\ outcomes[1].how = "doTimeout")
    => /\ requests = <<"proxy", "direct">>
       /\ Len(outcomes) = 2
       /\ err = outcomes[2].err

\* C4: in ParseFromSite, when the proxied attempt fails with a failure that
\* is no timeout (proxy URL does not parse, request cannot be built, Do fails
\* without a timeout), no direct request is issued, the consumer is never
\* invoked, and the call returns an error.
C4_NonTimeoutFailureNoFallback ==
    (/\ entry = "ParseFromSite"
     /\ Len(outcomes) >= 1
     /\ outcomes[1].how \in NonTimeoutFailures)
    => /\ \A i \in 1..Len(requests) : requests[i] # "direct"
       /\ consumed = <<>>
       /\ pc \in {"ParseFromSite", "done"}
       /\ pc = "done" => (err # Nil /\ err = outcomes[1].err /\ ~panicked)

C4_Witness ==
    /\ entry = "ParseFromSite"
    /\ pc = "done"
    /\ Len(outcomes) = 1
    /\ outcomes[1].how = "doError"
    /\ requests = <<"proxy">>

\* C5: ParseFromSite / ParseIndexFromSite called with an empty proxy pool
\* (and a usable URL) issue exactly one direct GET and return that attempt's
\* result; the call does not crash.
C5_EmptyPoolGoesDirect ==
    (/\ entry \in SiteEntries
     /\ Len(pool) = 0
     /\ urlOK
     /\ pc = "done")
    => /\ ~panicked
       /\ requests = <<"direct">>

\* C6: ParseIndexFromSite follows the retrieval state machine of
\* ParseFromSite; in particular a timeout of the proxied index request is
\* followed by one direct request.
C6_IndexTimeoutFallsBack ==
    (/\ entry = "ParseIndexFromSite"
     /\ pc = "done"
     /\ Len(outcomes) >= 1
     /\ outcomes[1].how = "doTimeout")
    => /\ Len(requests) = 2
       /\ requests[2] = "direct"

\* C7: every response body and file handle that was opened is closed when
\* the call has returned, whatever the exit path; the proxied attempt's body
\* is closed before a direct fallback begins; nothing is closed before the
\* walk over it has returned.
C7_ResourcesReleased ==
    /\ pc = "done" => opened \subseteq closed
    /\ phase = "direct" => (opened \cap {"proxyBody"}) \subseteq closed
    /\ closed \subseteq walked

C7_Witness ==
    /\ pc = "done"
    /\ closed = {"proxyBody", "directBody"}
    /\ err # Nil

\* C8: Parse reads nothing from its reader before the walk begins, and a
\* walk that ends without error over a sound reader has read every token.
C8_InputConsumedOnce ==
    /\ (entry \in PageEntries /\ pc = "parseLoop") => preRead = 0
    /\ (entry \in PageEntries /\ pc = "done" /\ rd.res # "none"
        /\ ReaderSound /\ err = Nil) => walkRead = Len(doc)

\* C9: a ParseFromSite call issues at most one proxied and at most one
\* direct request, the direct one only after the proxied attempt has failed,
\* and nothing follows the end of the direct attempt.
C9_AtMostOneFallback ==
    entry = "ParseFromSite"
    => /\ requests \in {<<>>, <<"proxy">>, <<"proxy", "direct">>}
       /\ (Len(requests) = 2 => (Len(outcomes) >= 1 /\ outcomes[1].err # Nil))
       /\ (Len(outcomes) = 2 => pc = "done")

C9_Witness ==
    /\ entry = "ParseFromSite"
    /\ pc = "done"
    /\ requests = <<"proxy", "direct">>
    /\ Len(outcomes) = 2

\* C10: in ParseFromSite an error raised after the proxied response was
\* obtained (by the consumer, by a read, by the tokenizer) is returned as it
\* is: no direct request is issued and the consumer is not invoked again.
C10_WalkErrorNoFallback ==
    (/\ entry = "ParseFromSite"
     /\ Len(outcomes) >= 1
     /\ outcomes[1].how = "walk"
     /\ outcomes[1].err # Nil)
    => /\ requests = <<"proxy">>
       /\ Len(consumed) = outcomes[1].calls
       /\ pc \in {"ParseFromSite", "done"}
       /\ pc = "done" => err = outcomes[1].err

====
